---- MODULE Spec2Model ----
(***************************************************************************)
(* Fallback-block validation and application pipeline of a Zilliqa node:   *)
(* Node::ProcessFallbackBlock, Node::VerifyFallbackBlockCoSignature and    *)
(* Node::UpdateDSCommitteeAfterFallback (libNode/FallbackBlockProcessing). *)
(* Every receiving thread runs ProcessFallbackBlock; the steps of one call *)
(* are the actions below, in the order of the source.                      *)
(***************************************************************************)
EXTENDS Integers, Sequences, FiniteSets, TLC

VARIABLES
  m_state,              \* Node::m_state
  m_shards,             \* m_mediator.m_ds->m_shards (DequeOfShard)
  m_DSCommittee,        \* *m_mediator.m_DSCommittee (DequeOfNode)
  m_blocklinkchain,     \* m_mediator.m_blocklinkchain, a sequence of BlockLinks
  blockStorage,         \* BlockStorage: fallback blocks by block hash
  m_mutexShards,        \* owner of m_mediator.m_ds->m_mutexShards
  m_mutexDSCommittee,   \* owner of m_mediator.m_mutexDSCommittee
  m_fallbackTimerPulse, \* set by FallbackTimerPulse()
  detached,             \* writeStateToDisk tasks handed to DetachedFunction, not yet run
  diskWrites,           \* what the writeStateToDisk tasks that ran left: none ran, moved, failed
  LOOKUP_NODE_MODE,     \* configuration flag
  BROADCAST_TREEBASED_CLUSTER_MODE, \* configuration flag
  node,                 \* per-node records reset after a fallback (caches, counters, PoW)
  sent,                 \* messages handed to SendFallbackBlockToOtherShardNodes
  pc,                   \* position of each thread in ProcessFallbackBlock
  fallbackblock,        \* the decoded FallbackBlock of each thread
  inbound,              \* the message bytes each thread was called with
  latestInd,            \* the local latestInd of each thread
  ret,                  \* return value of each thread's call
  trace,                \* per call: the steps taken so far, each with the locks held
  sawWaiting            \* per call: m_state was WAITING_FALLBACKBLOCK during the wait

vars == << m_state, m_shards, m_DSCommittee, m_blocklinkchain, blockStorage,
           m_mutexShards, m_mutexDSCommittee, m_fallbackTimerPulse, detached,
           diskWrites, LOOKUP_NODE_MODE, BROADCAST_TREEBASED_CLUSTER_MODE,
           node, sent, pc, fallbackblock, inbound, latestInd, ret, trace,
           sawWaiting >>

\* ------------------------------------------------------------------ bounds

\* Entries of the BlockLink chain when the first fallback block arrives.
MaxInitLinks == 2

Threads == {"t1", "t2"}

None == "none"

\* ------------------------------------------------------- program constants

FALLBACKBLOCK_VERSION == 1

\* Block number of the last DS block and the current epoch, as
\* Mediator::CheckWhetherBlockIsLatest reads them.
LatestDSBlockNum == 0
CurrentEpochNum == 1

\* AccountStore::GetInstance().GetStateRootHash()
CurrentStateRootHash == "root0"

NodeStates == {"WAITING_FALLBACKBLOCK", "FALLBACK_CONSENSUS"}

\* ------------------------------------------------------------- data model

\* A shard member: tuple<PubKey, Peer, uint16_t>.
ShardNode(k, p, r) == [pubkey |-> k, peer |-> p, rep |-> r]

\* A DS committee member: pair<PubKey, Peer>.
DSNode(k, p) == [pubkey |-> k, peer |-> p]

InitShards ==
  << << ShardNode("K1", "P1", 0), ShardNode("K2", "P2", 1),
        ShardNode("K3", "P3", 2), ShardNode("K4", "P4", 0) >>,
     << ShardNode("K5", "P5", 0), ShardNode("K6", "P6", 3) >> >>

InitDSCommittee == << DSNode("K7", "P7"), DSNode("K2", "P2"), DSNode("K8", "P8") >>

\* C++ containers are indexed from 0, sequences from 1.
At(seq, i) == seq[i + 1]

\* ConsensusCommon::NumForConsensus: ceil(shardSize * TOLERANCE_FRACTION),
\* TOLERANCE_FRACTION = 0.667 (shard size 10 gives 7).
NumForConsensus(shardSize) == (shardSize * 667 + 999) \div 1000

\* BlockHeaderBase::GetMyHash: SHA-256 of the serialized header.
GetMyHash(header) == << "sha256", header >>

\* Messenger::GetShardHash: hash of the serialized shard; the call can fail.
ShardHash(shard) == << "sha256", shard >>

\* FallbackBlockHeader::Serialize, CS1 and the bit vector of B1 appended.
CoSigMessage(block) == << block.header, block.cs1, block.b1 >>

\* The null aggregate key.
NullKey == {}

\* MultiSig::AggregatePubKeys: null for an empty key list, else the aggregate
\* of the keys.
AggregatePubKeys(keys) ==
  IF Len(keys) = 0 THEN NullKey ELSE { keys[i] : i \in 1..Len(keys) }

\* MultiSig::MultiSigVerify: the signature verifies under the aggregate of
\* exactly the keys that signed, over exactly the message that was signed.
MultiSigVerify(message, cs2, aggregatedKey) ==
  cs2.signedBy = aggregatedKey /\ cs2.over = message

\* VerifyTimestamp(timestamp, tolerance)
VerifyTimestamp(timestamp) == timestamp = "within"

\* Mediator::CheckWhetherBlockIsLatest(dsblockNum, epochNum)
CheckWhetherBlockIsLatest(dsblockNum, epochNum) ==
  dsblockNum = LatestDSBlockNum + 1 /\ epochNum = CurrentEpochNum

\* ------------------------------------------------- DS committee succession

\* A loop that appends every member, the leader included, at the back.
SuccessionLoopPushBack(dsComm, shard, leaderPubKey, leaderNetworkInfo) ==
  dsComm \o [i \in 1..Len(shard) |-> DSNode(shard[i].pubkey, shard[i].peer)]

RECURSIVE SuccessionLoop(_, _, _, _)
\* The loop of UpdateDSCommitteeAfterFallback over the members of the shard:
\* push_front for the leader's (pubkey, peer), push_back for everyone else.
SuccessionLoop(dsComm, shard, leaderPubKey, leaderNetworkInfo) ==
  IF shard = << >> THEN dsComm
  ELSE LET shardNode == Head(shard) IN
       IF shardNode.pubkey = leaderPubKey /\ shardNode.peer = leaderNetworkInfo
       THEN SuccessionLoop(<< DSNode(leaderPubKey, leaderNetworkInfo) >> \o dsComm,
                           Tail(shard), leaderPubKey, leaderNetworkInfo)
       ELSE SuccessionLoop(Append(dsComm, DSNode(shardNode.pubkey, shardNode.peer)),
                           Tail(shard), leaderPubKey, leaderNetworkInfo)

\* A succession that does not clear the previous committee first.
UpdateDSCommitteeNoClear(shard_id, leaderPubKey, leaderNetworkInfo, dsComm, shards) ==
  SuccessionLoop(dsComm, At(shards, shard_id), leaderPubKey, leaderNetworkInfo)

\* Node::UpdateDSCommitteeAfterFallback: the value of dsComm on return.
UpdateDSCommitteeAfterFallback(shard_id, leaderPubKey, leaderNetworkInfo, dsComm, shards) ==
  SuccessionLoop(<< >>, At(shards, shard_id), leaderPubKey, leaderNetworkInfo)

\* ------------------------------------------------ co-signature verification

RECURSIVE SelectKeys(_, _, _)
\* The loop that collects the public keys of the members whose B2 bit is set.
SelectKeys(shard, B2, index) ==
  IF index > Len(shard) THEN << >>
  ELSE (IF B2[index] THEN << shard[index].pubkey >> ELSE << >>)
       \o SelectKeys(shard, B2, index + 1)

\* A size check that lets a bitmap longer than the shard through.
B2SizeMismatchShortOnly(shard, B2) == Len(shard) > Len(B2)

\* The first check of VerifyFallbackBlockCoSignature: shard size against the
\* size of the co-signature bitmap.
B2SizeMismatch(shard, B2) == Len(shard) # Len(B2)

\* Node::VerifyFallbackBlockCoSignature: the result, the steps it ran
\* ("size", "select", "quorum", "aggregate", "verify") and the keys selected.
VerifyFallbackBlockCoSignature(block, shards) ==
  LET shard == At(shards, block.header.shardId)
      B2 == block.b2
  IN
  IF B2SizeMismatch(shard, B2)
  THEN [result |-> FALSE, steps |-> << "size" >>, keys |-> << >>]
  ELSE
    LET keys == SelectKeys(shard, B2, 1)
        count == Len(keys)
    IN
    IF count # NumForConsensus(Len(B2))
    THEN [result |-> FALSE, steps |-> << "size", "select", "quorum" >>, keys |-> keys]
    ELSE
      LET aggregatedKey == AggregatePubKeys(keys) IN
      IF aggregatedKey = NullKey
      THEN [result |-> FALSE,
            steps |-> << "size", "select", "quorum", "aggregate" >>, keys |-> keys]
      ELSE [result |-> MultiSigVerify(CoSigMessage(block), block.cs2, aggregatedKey),
            steps |-> << "size", "select", "quorum", "aggregate", "verify" >>,
            keys |-> keys]

\* --------------------------------------------------------- inbound messages

\* All bitmaps of the given length.
Bitmaps(n) == [1..n -> BOOLEAN]

\* The bitmap of length n whose first k bits are set.
FirstBits(n, k) == [i \in 1..n |-> i <= k]

OtherShard == << ShardNode("K9", "P9", 0) >>

\* The header a block description p stands for.
MakeHeader(p) ==
  [version |-> p.version, shardId |-> p.shardId,
   leaderPubKey |-> p.leader[1], leaderNetworkInfo |-> p.leader[2],
   leaderConsensusId |-> p.leaderConsensusId,
   fallbackDSEpochNo |-> p.dsEpoch, fallbackEpochNo |-> p.fbEpoch,
   stateRootHash |-> p.stateRoot, committeeHash |-> p.committeeHash]

\* The members of the shard a description refers to (none when out of range).
ReferredShard(p) ==
  IF p.shardId < Len(InitShards) THEN At(InitShards, p.shardId) ELSE << >>

\* The keys the description's B2 marks, over the part of B2 that has a member.
MarkedKeys(p) ==
  LET shard == ReferredShard(p) IN
  { shard[i].pubkey : i \in { j \in 1..Len(shard) : j <= Len(p.b2) /\ p.b2[j] } }

\* The outer signature CS2 of a description: "genuine" is the aggregate
\* signature of exactly the members B2 marks over the canonical message,
\* "quorum" the one of the first NumForConsensus members whatever B2 says,
\* "forged" a signature over some other message.
MakeCS2(p, message) ==
  LET shard == ReferredShard(p) IN
  [signedBy |-> IF p.sig = "quorum"
                THEN { shard[i].pubkey : i \in 1..NumForConsensus(Len(shard)) }
                ELSE MarkedKeys(p),
   over |-> IF p.sig = "forged" THEN << >> ELSE message]

\* The FallbackBlock a description stands for.
MakeBlock(p) ==
  LET header == MakeHeader(p) IN
  [header |-> header,
   blockhash |-> IF p.hash = "good" THEN GetMyHash(header)
                 ELSE GetMyHash([header EXCEPT !.version = 0]),
   timestamp |-> p.timestamp,
   cs1 |-> "cs1", b1 |-> p.b2, b2 |-> p.b2,
   cs2 |-> MakeCS2(p, << header, "cs1", p.b2 >>)]

\* The bytes of a message: the encoding of a block, possibly damaged, possibly
\* followed by excess data.
MakeMessage(p) == [wellformed |-> p.wellformed, body |-> MakeBlock(p), excess |-> p.excess]

\* A block of shard s that passes every check: leader = member 0, the first
\* NumForConsensus members co-signed.
GoodBlock(s) ==
  LET shard == At(InitShards, s) IN
  [wellformed |-> TRUE, excess |-> FALSE, version |-> FALLBACKBLOCK_VERSION,
   dsEpoch |-> LatestDSBlockNum + 1, fbEpoch |-> CurrentEpochNum,
   hash |-> "good", timestamp |-> "within", shardId |-> s,
   committeeHash |-> ShardHash(shard), leaderConsensusId |-> 0,
   leader |-> << shard[1].pubkey, shard[1].peer >>,
   stateRoot |-> CurrentStateRootHash,
   b2 |-> FirstBits(Len(shard), NumForConsensus(Len(shard))), sig |-> "genuine"]

AllMembers == UNION { { sh[i] : i \in 1..Len(sh) } : sh \in { InitShards[s] : s \in 1..Len(InitShards) } }

\* The values each field of a description ranges over, around a good block g.
FieldValues(g) ==
  LET n == Len(ReferredShard(g)) IN
  [wellformed |-> BOOLEAN, excess |-> BOOLEAN,
   version |-> {FALLBACKBLOCK_VERSION, FALLBACKBLOCK_VERSION + 1},
   dsEpoch |-> {LatestDSBlockNum, LatestDSBlockNum + 1},
   fbEpoch |-> {CurrentEpochNum, CurrentEpochNum + 1},
   hash |-> {"good", "bad"}, timestamp |-> {"within", "outside"},
   shardId |-> 0..Len(InitShards),
   committeeHash |-> { ShardHash(InitShards[s]) : s \in 1..Len(InitShards) }
                     \cup { ShardHash(OtherShard) },
   leaderConsensusId |-> 0..n,
   leader |-> { << m.pubkey, m.peer >> : m \in AllMembers }
              \cup { << "K1", "P2" >>, << "K9", "P9" >> },
   stateRoot |-> {CurrentStateRootHash, "root1"},
   b2 |-> Bitmaps(n - 1) \cup Bitmaps(n) \cup Bitmaps(n + 1),
   sig |-> {"genuine", "quorum", "forged"}]

\* The descriptions that differ from g in the one field f.
Vary(g, f) == { [g EXCEPT ![f] = v] : v \in FieldValues(g)[f] }

Fields == DOMAIN FieldValues(GoodBlock(0))

\* The descriptions that differ from a good block in at most two fields.
Descriptions ==
  UNION { UNION { UNION { Vary(p, f2) : p \in Vary(GoodBlock(s), f1) }
                  : f1 \in Fields, f2 \in Fields }
          : s \in 0..(Len(InitShards) - 1) }

\* The inbound messages of the single-thread specification.
Messages == { MakeMessage(p) : p \in Descriptions }

\* The inbound messages of the concurrent specification: a good block of
\* each shard, one failing the state root check, one failing the co-signature
\* check, and one that does not decode.
FewMessages ==
  { MakeMessage(GoodBlock(s)) : s \in 0..(Len(InitShards) - 1) }
  \cup { MakeMessage([GoodBlock(0) EXCEPT !.stateRoot = "root1"]),
         MakeMessage([GoodBlock(1) EXCEPT !.b2 = FirstBits(3, 3)]),
         MakeMessage([GoodBlock(0) EXCEPT !.wellformed = FALSE]) }

\* ------------------------------------------------------------ the pipeline

\* The locks thread t holds.
Held(t) ==
  (IF m_mutexShards = t THEN {"m_mutexShards"} ELSE {})
  \cup (IF m_mutexDSCommittee = t THEN {"m_mutexDSCommittee"} ELSE {})

\* A step of the call, with the locks held while it runs.
Ev(t, name) == [ev |-> name, locks |-> Held(t)]

\* The steps named in a sequence of names, as run by t.
Evs(t, names) == [i \in 1..Len(names) |-> Ev(t, names[i])]

\* Node::CheckState(PROCESS_FALLBACKBLOCK): the action is allowed in
\* WAITING_FALLBACKBLOCK only.
CheckState == m_state = "WAITING_FALLBACKBLOCK"

\* Checks before the lock that go on after a version mismatch and reject at
\* the end.
PreLockChecksNotFailFast(message) ==
  LET block == message.body IN
  IF ~message.wellformed
  THEN [ok |-> FALSE, checks |-> << "decode" >>]
  ELSE [ok |-> /\ block.header.version = FALLBACKBLOCK_VERSION
               /\ CheckWhetherBlockIsLatest(block.header.fallbackDSEpochNo,
                                            block.header.fallbackEpochNo)
               /\ GetMyHash(block.header) = block.blockhash
               /\ VerifyTimestamp(block.timestamp),
        checks |-> << "decode", "version", "latest", "hash", "timestamp" >>]

\* Messenger::GetNodeFallbackBlock, then the checks made before any lock is
\* taken, in source order, stopping at the first that fails: the checks
\* evaluated and whether all passed.
PreLockChecks(message) ==
  LET block == message.body IN
  IF ~message.wellformed
  THEN [ok |-> FALSE, checks |-> << "decode" >>]
  ELSE IF block.header.version # FALLBACKBLOCK_VERSION
  THEN [ok |-> FALSE, checks |-> << "decode", "version" >>]
  ELSE IF ~CheckWhetherBlockIsLatest(block.header.fallbackDSEpochNo,
                                     block.header.fallbackEpochNo)
  THEN [ok |-> FALSE, checks |-> << "decode", "version", "latest" >>]
  ELSE IF GetMyHash(block.header) # block.blockhash
  THEN [ok |-> FALSE, checks |-> << "decode", "version", "latest", "hash" >>]
  ELSE IF ~VerifyTimestamp(block.timestamp)
  THEN [ok |-> FALSE,
        checks |-> << "decode", "version", "latest", "hash", "timestamp" >>]
  ELSE [ok |-> TRUE,
        checks |-> << "decode", "version", "latest", "hash", "timestamp" >>]

\* The locked checks without the comparison of the state root.
ShardChecksNoStateRoot(block, shards, shardHashOk) ==
  LET shard_id == block.header.shardId IN
  IF shard_id >= Len(shards)
  THEN [ok |-> FALSE, checks |-> << "shard" >>]
  ELSE IF ~shardHashOk
  THEN [ok |-> FALSE, checks |-> << "shard", "shardhash" >>]
  ELSE IF ShardHash(At(shards, shard_id)) # block.header.committeeHash
  THEN [ok |-> FALSE, checks |-> << "shard", "shardhash", "committeehash" >>]
  ELSE IF block.header.leaderConsensusId >= Len(At(shards, shard_id))
  THEN [ok |-> FALSE,
        checks |-> << "shard", "shardhash", "committeehash", "leaderid" >>]
  ELSE IF ~\E i \in 1..Len(At(shards, shard_id)) :
             /\ At(shards, shard_id)[i].pubkey = block.header.leaderPubKey
             /\ At(shards, shard_id)[i].peer = block.header.leaderNetworkInfo
  THEN [ok |-> FALSE,
        checks |-> << "shard", "shardhash", "committeehash", "leaderid", "leader" >>]
  ELSE [ok |-> TRUE,
        checks |-> << "shard", "shardhash", "committeehash", "leaderid", "leader" >>]

\* The checks made under m_mutexShards before the co-signature, in source
\* order, stopping at the first that fails. shardHashOk is the outcome of
\* Messenger::GetShardHash.
ShardChecks(block, shards, shardHashOk) ==
  LET shard_id == block.header.shardId IN
  IF shard_id >= Len(shards)
  THEN [ok |-> FALSE, checks |-> << "shard" >>]
  ELSE IF ~shardHashOk
  THEN [ok |-> FALSE, checks |-> << "shard", "shardhash" >>]
  ELSE IF ShardHash(At(shards, shard_id)) # block.header.committeeHash
  THEN [ok |-> FALSE, checks |-> << "shard", "shardhash", "committeehash" >>]
  ELSE IF block.header.leaderConsensusId >= Len(At(shards, shard_id))
  THEN [ok |-> FALSE,
        checks |-> << "shard", "shardhash", "committeehash", "leaderid" >>]
  ELSE IF ~\E i \in 1..Len(At(shards, shard_id)) :
             /\ At(shards, shard_id)[i].pubkey = block.header.leaderPubKey
             /\ At(shards, shard_id)[i].peer = block.header.leaderNetworkInfo
  THEN [ok |-> FALSE,
        checks |-> << "shard", "shardhash", "committeehash", "leaderid", "leader" >>]
  ELSE IF CurrentStateRootHash # block.header.stateRootHash
  THEN [ok |-> FALSE,
        checks |-> << "shard", "shardhash", "committeehash", "leaderid", "leader",
                      "stateroot" >>]
  ELSE [ok |-> TRUE,
        checks |-> << "shard", "shardhash", "committeehash", "leaderid", "leader",
                      "stateroot" >>]

\* BlockLinkChain::GetLatestIndex
GetLatestIndex(chain) == chain[Len(chain)].index

\* BlockLinkChain::AddBlockLink(index, dsindex, blocktype, blockhash)
AddBlockLink(chain, index, dsindex, blocktype, blockhash) ==
  Append(chain, [index |-> index, dsindex |-> dsindex, blocktype |-> blocktype,
                 blockhash |-> blockhash])

\* BlockStorage::PutFallbackBlock(blockhash, serialized block with shards)
PutFallbackBlock(storage, blockhash, value) ==
  [h \in DOMAIN storage \cup {blockhash} |->
     IF h = blockhash THEN value ELSE storage[h]]

\* Messenger::SetNodeFallbackBlock after the two type bytes
\* {MessageType::NODE, NodeInstructionType::FALLBACKBLOCK}.
SetNodeFallbackBlock(block) ==
  [type |-> << "NODE", "FALLBACKBLOCK" >>,
   payload |-> [wellformed |-> TRUE, body |-> block, excess |-> FALSE]]

\* ------------------------------------------------------------------- state

\* A chain of k links: the link of the last DS block, then links of
\* view-change blocks of the DS epoch after it.
InitChain(k) ==
  [i \in 1..k |->
     [index |-> i - 1,
      dsindex |-> IF i = 1 THEN LatestDSBlockNum ELSE LatestDSBlockNum + 1,
      blocktype |-> IF i = 1 THEN "DS" ELSE "VC",
      blockhash |-> GetMyHash([MakeHeader(GoodBlock(0)) EXCEPT !.version = -i])]]

Init ==
  /\ m_state \in NodeStates
  /\ m_shards = InitShards
  /\ m_DSCommittee = InitDSCommittee
  /\ m_blocklinkchain \in { InitChain(k) : k \in 1..MaxInitLinks }
  /\ blockStorage = << >>
  /\ m_mutexShards = None
  /\ m_mutexDSCommittee = None
  /\ m_fallbackTimerPulse = FALSE
  /\ detached = 0
  /\ diskWrites = "none ran"
  /\ LOOKUP_NODE_MODE \in BOOLEAN
  /\ BROADCAST_TREEBASED_CLUSTER_MODE \in BOOLEAN
  /\ node = [processedTransactions |-> TRUE, createdTransactions |-> TRUE,
             microblockConsensusBuffer |-> TRUE, tempState |-> TRUE,
             pow |-> 0, m_consensusID |-> 3, m_consensusLeaderID |-> 2]
  /\ sent = << >>
  /\ pc = [t \in Threads |-> "idle"]
  /\ fallbackblock = [t \in Threads |-> None]
  /\ inbound = [t \in Threads |-> None]
  /\ latestInd = [t \in Threads |-> 0]
  /\ ret = [t \in Threads |-> FALSE]
  /\ trace = [t \in Threads |-> << >>]
  /\ sawWaiting = [t \in Threads |-> FALSE]

config == << LOOKUP_NODE_MODE, BROADCAST_TREEBASED_CLUSTER_MODE >>
locks == << m_mutexShards, m_mutexDSCommittee >>
shared == << m_shards, m_DSCommittee, m_blocklinkchain, blockStorage,
             m_fallbackTimerPulse, detached, diskWrites, node, sent >>

\* t goes to position p having run the steps named.
Goto(t, p, names) ==
  /\ pc' = [pc EXCEPT ![t] = p]
  /\ trace' = [trace EXCEPT ![t] = @ \o Evs(t, names)]

\* t returns false having run the steps named.
ReturnFalse(t, names) ==
  /\ Goto(t, "done", names)
  /\ ret' = [ret EXCEPT ![t] = FALSE]

\* ------------------------------------------------------------- AWAIT_READY

\* Entry of ProcessFallbackBlock: CheckState(PROCESS_FALLBACKBLOCK).
Enter(t) ==
  /\ pc[t] = "idle"
  /\ IF CheckState
     THEN Goto(t, "decode", << "CheckState" >>)
     ELSE Goto(t, "wait_for", << "CheckState", "wait_for" >>)
  /\ sawWaiting' = [sawWaiting EXCEPT ![t] = FALSE]
  /\ UNCHANGED << m_state, shared, config, locks, fallbackblock, inbound, latestInd, ret >>

\* cv_fallbackBlock.wait_for evaluates its predicate: true ends the wait,
\* false blocks the thread on the condition variable.
WaitPredicate(t) ==
  /\ pc[t] \in {"wait_for", "woken"}
  /\ IF m_state = "WAITING_FALLBACKBLOCK"
     THEN Goto(t, "decode", << >>)
     ELSE Goto(t, "blocked", << >>)
  /\ UNCHANGED << m_state, shared, config, locks, fallbackblock, inbound, latestInd, ret,
                  sawWaiting >>

\* A wake-up that goes on without evaluating the predicate again.
WakeUpNoRecheck(t) ==
  /\ pc[t] = "blocked"
  /\ Goto(t, "decode", << >>)
  /\ UNCHANGED << m_state, shared, config, locks, fallbackblock, inbound, latestInd, ret,
                  sawWaiting >>

\* A notification or a spurious wake-up: the predicate is evaluated again.
WakeUp(t) ==
  /\ pc[t] = "blocked"
  /\ Goto(t, "woken", << >>)
  /\ UNCHANGED << m_state, shared, config, locks, fallbackblock, inbound, latestInd, ret,
                  sawWaiting >>

\* A timeout whose result is ignored: the call goes on to decode.
TimeOutIgnored(t) ==
  /\ pc[t] = "blocked"
  /\ Goto(t, "decode", << "timeout" >>)
  /\ UNCHANGED << m_state, shared, config, locks, fallbackblock, inbound, latestInd,
                  ret, sawWaiting >>

\* FALLBACK_EXTRA_TIME seconds have passed: wait_for returns the predicate.
TimeOut(t) ==
  /\ pc[t] = "blocked"
  /\ IF m_state = "WAITING_FALLBACKBLOCK"
     THEN Goto(t, "decode", << "timeout" >>) /\ UNCHANGED ret
     ELSE ReturnFalse(t, << "timeout" >>)
  /\ UNCHANGED << m_state, shared, config, locks, fallbackblock, inbound, latestInd,
                  sawWaiting >>

\* ------------------------------------------------- DECODE to TIMESTAMP_CHECK

\* Decode the message and run the checks that need no lock.
DecodeAndCheck(t, msgs) ==
  /\ pc[t] = "decode"
  /\ \E message \in msgs :
       /\ inbound' = [inbound EXCEPT ![t] = message]
       /\ fallbackblock' = [fallbackblock EXCEPT ![t] =
                              IF message.wellformed THEN message.body ELSE None]
       /\ IF PreLockChecks(message).ok
          THEN Goto(t, "lock_shards", PreLockChecks(message).checks) /\ UNCHANGED ret
          ELSE ReturnFalse(t, PreLockChecks(message).checks)
  /\ UNCHANGED << m_state, shared, config, locks, latestInd, sawWaiting >>

\* ------------------------------------------ SHARD_EXISTENCE to COSIG_CHECK

\* An entry into the locked block that does not wait for m_mutexShards.
LockShardsNoWait(t) ==
  /\ pc[t] = "lock_shards"
  /\ m_mutexShards' = t
  /\ Goto(t, "shard_checks", << >>)
  /\ UNCHANGED << m_state, shared, config, m_mutexDSCommittee, fallbackblock, inbound,
                  latestInd, ret, sawWaiting >>

\* lock_guard<mutex> g(m_mediator.m_ds->m_mutexShards)
LockShards(t) ==
  /\ pc[t] = "lock_shards"
  /\ m_mutexShards = None
  /\ m_mutexShards' = t
  /\ Goto(t, "shard_checks", << >>)
  /\ UNCHANGED << m_state, shared, config, m_mutexDSCommittee, fallbackblock, inbound,
                  latestInd, ret, sawWaiting >>

\* Checks after which m_mutexShards is released before the co-signature check.
CheckShardAndLeaderUnlock(t) ==
  /\ pc[t] = "shard_checks"
  /\ \E shardHashOk \in BOOLEAN :
       LET r == ShardChecks(fallbackblock[t], m_shards, shardHashOk) IN
       IF r.ok
       THEN Goto(t, "cosig", r.checks) /\ UNCHANGED ret
       ELSE ReturnFalse(t, r.checks)
  /\ m_mutexShards' = None
  /\ UNCHANGED << m_state, shared, config, m_mutexDSCommittee, fallbackblock, inbound,
                  latestInd, sawWaiting >>

\* Shard, committee hash, leader and state root checks, under m_mutexShards;
\* a failing check returns false, which releases the lock.
CheckShardAndLeader(t) ==
  /\ pc[t] = "shard_checks"
  /\ \E shardHashOk \in BOOLEAN :
       LET r == ShardChecks(fallbackblock[t], m_shards, shardHashOk) IN
       IF r.ok
       THEN Goto(t, "cosig", r.checks) /\ UNCHANGED << ret, m_mutexShards >>
       ELSE ReturnFalse(t, r.checks) /\ m_mutexShards' = None
  /\ UNCHANGED << m_state, shared, config, m_mutexDSCommittee, fallbackblock, inbound,
                  latestInd, sawWaiting >>

\* VerifyFallbackBlockCoSignature(fallbackblock)
CheckCoSig(t) ==
  /\ pc[t] = "cosig"
  /\ LET r == VerifyFallbackBlockCoSignature(fallbackblock[t], m_shards) IN
     IF r.result
     THEN Goto(t, "latest_index", r.steps) /\ UNCHANGED << ret, m_mutexShards >>
     ELSE ReturnFalse(t, r.steps) /\ m_mutexShards' = None
  /\ UNCHANGED << m_state, shared, config, m_mutexDSCommittee, fallbackblock, inbound,
                  latestInd, sawWaiting >>

\* ------------------------------------------------------------------ COMMIT

\* uint64_t latestInd = m_mediator.m_blocklinkchain.GetLatestIndex() + 1
ReadLatestIndex(t) ==
  /\ pc[t] = "latest_index"
  /\ latestInd' = [latestInd EXCEPT ![t] = GetLatestIndex(m_blocklinkchain) + 1]
  /\ Goto(t, "add_link", << "GetLatestIndex" >>)
  /\ UNCHANGED << m_state, shared, config, locks, fallbackblock, inbound, ret,
                  sawWaiting >>

\* m_blocklinkchain.AddBlockLink(latestInd, FallbackDSEpochNo, BlockType::FB, hash)
AppendBlockLink(t) ==
  /\ pc[t] = "add_link"
  /\ m_blocklinkchain' =
       AddBlockLink(m_blocklinkchain, latestInd[t],
                    fallbackblock[t].header.fallbackDSEpochNo, "FB",
                    fallbackblock[t].blockhash)
  /\ Goto(t, "persist", << "AddBlockLink" >>)
  /\ UNCHANGED << m_state, m_shards, m_DSCommittee, blockStorage, m_fallbackTimerPulse,
                  detached, diskWrites, node, sent, config, locks, fallbackblock,
                  inbound, latestInd, ret, sawWaiting >>

\* Serialize the block with the sharding structure and put it in storage. A
\* failed Serialize is logged and skips the put; a failed put returns false.
Persist(t) ==
  /\ pc[t] = "persist"
  /\ \E outcome \in {"serialize failed", "put failed", "stored"} :
       CASE outcome = "serialize failed" ->
              /\ Goto(t, "pulse", << "Serialize" >>)
              /\ UNCHANGED << blockStorage, ret, m_mutexShards >>
         [] outcome = "put failed" ->
              /\ ReturnFalse(t, << "Serialize", "PutFallbackBlock failed" >>)
              /\ m_mutexShards' = None
              /\ UNCHANGED blockStorage
         [] outcome = "stored" ->
              /\ blockStorage' =
                   PutFallbackBlock(blockStorage, fallbackblock[t].blockhash,
                                    [block |-> fallbackblock[t], shards |-> m_shards])
              /\ Goto(t, "pulse", << "Serialize", "PutFallbackBlock" >>)
              /\ UNCHANGED << ret, m_mutexShards >>
  /\ UNCHANGED << m_state, m_shards, m_DSCommittee, m_blocklinkchain,
                  m_fallbackTimerPulse, detached, diskWrites, node, sent, config,
                  m_mutexDSCommittee, fallbackblock, inbound, latestInd, sawWaiting >>

\* FallbackTimerPulse()
PulseTimer(t) ==
  /\ pc[t] = "pulse"
  /\ m_fallbackTimerPulse' = TRUE
  /\ Goto(t, "lock_ds", << "FallbackTimerPulse" >>)
  /\ UNCHANGED << m_state, m_shards, m_DSCommittee, m_blocklinkchain, blockStorage,
                  detached, diskWrites, node, sent, config, locks, fallbackblock,
                  inbound, latestInd, ret, sawWaiting >>

\* lock_guard<mutex> g(m_mediator.m_mutexDSCommittee)
LockDSCommittee(t) ==
  /\ pc[t] = "lock_ds"
  /\ m_mutexDSCommittee = None
  /\ m_mutexDSCommittee' = t
  /\ Goto(t, "update_ds", << >>)
  /\ UNCHANGED << m_state, shared, config, m_mutexShards, fallbackblock, inbound,
                  latestInd, ret, sawWaiting >>

\* A succession that leaves m_mutexDSCommittee locked.
ReplaceDSCommitteeKeepLock(t) ==
  /\ pc[t] = "update_ds"
  /\ m_DSCommittee' =
       UpdateDSCommitteeAfterFallback(fallbackblock[t].header.shardId,
                                      fallbackblock[t].header.leaderPubKey,
                                      fallbackblock[t].header.leaderNetworkInfo,
                                      m_DSCommittee, m_shards)
  /\ Goto(t, "detach", << "UpdateDSCommitteeAfterFallback" >>)
  /\ UNCHANGED << m_state, m_shards, m_blocklinkchain, blockStorage,
                  m_fallbackTimerPulse, detached, diskWrites, node, sent, config,
                  locks, fallbackblock, inbound, latestInd, ret, sawWaiting >>

\* UpdateDSCommitteeAfterFallback under m_mutexDSCommittee, released after it.
ReplaceDSCommittee(t) ==
  /\ pc[t] = "update_ds"
  /\ m_DSCommittee' =
       UpdateDSCommitteeAfterFallback(fallbackblock[t].header.shardId,
                                      fallbackblock[t].header.leaderPubKey,
                                      fallbackblock[t].header.leaderNetworkInfo,
                                      m_DSCommittee, m_shards)
  /\ m_mutexDSCommittee' = None
  /\ Goto(t, "detach", << "UpdateDSCommitteeAfterFallback" >>)
  /\ UNCHANGED << m_state, m_shards, m_blocklinkchain, blockStorage,
                  m_fallbackTimerPulse, detached, diskWrites, node, sent, config,
                  m_mutexShards, fallbackblock, inbound, latestInd, ret, sawWaiting >>

\* DetachedFunction(1, writeStateToDisk); the scope of m_mutexShards ends.
DetachWriteStateToDisk(t) ==
  /\ pc[t] = "detach"
  /\ detached' = detached + 1
  /\ m_mutexShards' = None
  /\ Goto(t, "post", << "DetachedFunction" >>)
  /\ UNCHANGED << m_state, m_shards, m_DSCommittee, m_blocklinkchain, blockStorage,
                  m_fallbackTimerPulse, diskWrites, node, sent, config,
                  m_mutexDSCommittee, fallbackblock, inbound, latestInd, ret,
                  sawWaiting >>

\* ------------------------------------------------------ post-commit effects

NUM_FORWARDED_BLOCK_RECEIVERS_PER_SHARD == 10
NUM_DS_ELECTION == 5
NUM_OF_TREEBASED_CHILD_CLUSTERS == 3

\* Node::SendFallbackBlockToOtherShardNodes: the call of
\* SendBlockToOtherShardNodes it makes.
SendFallbackBlockToOtherShardNodes(fallbackblock_message) ==
  [message |-> fallbackblock_message,
   cluster_size |-> IF NUM_FORWARDED_BLOCK_RECEIVERS_PER_SHARD <= NUM_DS_ELECTION
                    THEN NUM_DS_ELECTION + 1
                    ELSE NUM_FORWARDED_BLOCK_RECEIVERS_PER_SHARD,
   child_clusters |-> NUM_OF_TREEBASED_CHILD_CLUSTERS]

\* A cleaning that also resets the consensus counters.
RejoinResetsCounters(n) ==
  [n EXCEPT !.processedTransactions = FALSE, !.createdTransactions = FALSE,
            !.microblockConsensusBuffer = FALSE, !.tempState = FALSE,
            !.pow = @ + 1, !.m_consensusID = 0, !.m_consensusLeaderID = 0]

\* The cleaning and the PoW of a node that is not a lookup.
RejoinAsShardNode(n) ==
  [n EXCEPT !.processedTransactions = FALSE, !.createdTransactions = FALSE,
            !.microblockConsensusBuffer = FALSE, !.tempState = FALSE,
            !.pow = @ + 1]

\* The counters a lookup node resets.
ResetAsLookup(n) == [n EXCEPT !.m_consensusID = 0, !.m_consensusLeaderID = 0]

\* Post-commit effects that relay the inbound bytes instead of a re-encoding.
PostCommitRelaysInbound(t) ==
  /\ pc[t] = "post"
  /\ IF ~LOOKUP_NODE_MODE
     THEN /\ node' = RejoinAsShardNode(node)
          /\ IF BROADCAST_TREEBASED_CLUSTER_MODE
             THEN \E encoded \in BOOLEAN :
                    IF encoded
                    THEN /\ sent' = Append(sent, SendFallbackBlockToOtherShardNodes(
                                                   [type |-> << "NODE", "FALLBACKBLOCK" >>,
                                                    payload |-> inbound[t]]))
                         /\ Goto(t, "done",
                                 << "SetNodeFallbackBlock",
                                    "SendFallbackBlockToOtherShardNodes",
                                    "CleanCaches", "InitiatePoW" >>)
                    ELSE /\ UNCHANGED sent
                         /\ Goto(t, "done",
                                 << "SetNodeFallbackBlock failed",
                                    "CleanCaches", "InitiatePoW" >>)
             ELSE /\ UNCHANGED sent
                  /\ Goto(t, "done", << "CleanCaches", "InitiatePoW" >>)
     ELSE /\ node' = ResetAsLookup(node)
          /\ UNCHANGED sent
          /\ Goto(t, "done", << "ResetConsensusID" >>)
  /\ ret' = [ret EXCEPT ![t] = TRUE]
  /\ UNCHANGED << m_state, m_shards, m_DSCommittee, m_blocklinkchain, blockStorage,
                  m_fallbackTimerPulse, detached, diskWrites, config, locks,
                  fallbackblock, inbound, latestInd, sawWaiting >>

\* After the locked block: relay, cleaning and InitiatePoW, or the reset of
\* the consensus ids on a lookup; then return true.
PostCommit(t) ==
  /\ pc[t] = "post"
  /\ IF ~LOOKUP_NODE_MODE
     THEN /\ node' = RejoinAsShardNode(node)
          /\ IF BROADCAST_TREEBASED_CLUSTER_MODE
             THEN \E encoded \in BOOLEAN :
                    IF encoded
                    THEN /\ sent' = Append(sent, SendFallbackBlockToOtherShardNodes(
                                                   SetNodeFallbackBlock(fallbackblock[t])))
                         /\ Goto(t, "done",
                                 << "SetNodeFallbackBlock",
                                    "SendFallbackBlockToOtherShardNodes",
                                    "CleanCaches", "InitiatePoW" >>)
                    ELSE /\ UNCHANGED sent
                         /\ Goto(t, "done",
                                 << "SetNodeFallbackBlock failed",
                                    "CleanCaches", "InitiatePoW" >>)
             ELSE /\ UNCHANGED sent
                  /\ Goto(t, "done", << "CleanCaches", "InitiatePoW" >>)
     ELSE /\ node' = ResetAsLookup(node)
          /\ UNCHANGED sent
          /\ Goto(t, "done", << "ResetConsensusID" >>)
  /\ ret' = [ret EXCEPT ![t] = TRUE]
  /\ UNCHANGED << m_state, m_shards, m_DSCommittee, m_blocklinkchain, blockStorage,
                  m_fallbackTimerPulse, detached, diskWrites, config, locks,
                  fallbackblock, inbound, latestInd, sawWaiting >>

\* ------------------------------------------------------------- environment

\* The node changes state (Node::SetState, from the consensus threads).
SetState(s) ==
  /\ s # m_state
  /\ m_state' = s
  /\ sawWaiting' = [t \in Threads |->
                      IF pc[t] \in {"wait_for", "woken", "blocked"}
                      THEN sawWaiting[t] \/ s = "WAITING_FALLBACKBLOCK"
                      ELSE sawWaiting[t]]
  /\ UNCHANGED << shared, config, locks, pc, fallbackblock, inbound, latestInd, ret,
                  trace >>

\* A flush whose failure fails the calls made so far.
WriteStateToDiskFailsCall ==
  /\ detached > 0
  /\ \E moved \in BOOLEAN :
       /\ diskWrites' = IF moved THEN "moved" ELSE "failed"
       /\ ret' = IF moved THEN ret ELSE [t \in Threads |-> FALSE]
  /\ detached' = detached - 1
  /\ UNCHANGED << m_state, m_shards, m_DSCommittee, m_blocklinkchain, blockStorage,
                  m_fallbackTimerPulse, node, sent, config, locks, pc, fallbackblock,
                  inbound, latestInd, trace, sawWaiting >>

\* A detached writeStateToDisk task runs: MoveUpdatesToDisk succeeds or fails.
WriteStateToDisk ==
  /\ detached > 0
  /\ \E moved \in BOOLEAN :
       diskWrites' = IF moved THEN "moved" ELSE "failed"
  /\ detached' = detached - 1
  /\ UNCHANGED << m_state, m_shards, m_DSCommittee, m_blocklinkchain, blockStorage,
                  m_fallbackTimerPulse, node, sent, config, locks, pc, fallbackblock,
                  inbound, latestInd, ret, trace, sawWaiting >>

\* ----------------------------------------------------------- specifications

\* One step of thread t, its messages drawn from msgs.
ProcessFallbackBlock(t, msgs) ==
  \/ Enter(t)
  \/ WaitPredicate(t)
  \/ WakeUp(t)
  \/ TimeOut(t)
  \/ DecodeAndCheck(t, msgs)
  \/ LockShards(t)
  \/ CheckShardAndLeader(t)
  \/ CheckCoSig(t)
  \/ ReadLatestIndex(t)
  \/ AppendBlockLink(t)
  \/ Persist(t)
  \/ PulseTimer(t)
  \/ LockDSCommittee(t)
  \/ ReplaceDSCommittee(t)
  \/ DetachWriteStateToDisk(t)
  \/ PostCommit(t)

\* Concurrent receivers, a few messages. The detached writeStateToDisk tasks
\* write only diskWrites, which no step of ProcessFallbackBlock reads; they
\* run in SpecOne.
Next ==
  \/ \E t \in Threads : ProcessFallbackBlock(t, FewMessages)
  \/ \E s \in NodeStates : SetState(s)

Spec == Init /\ [][Next]_vars

\* One receiver, every message that differs from a good block in at most two
\* fields.
NextOne ==
  \/ ProcessFallbackBlock("t1", Messages)
  \/ \E s \in NodeStates : SetState(s)
  \/ WriteStateToDisk

SpecOne == Init /\ [][NextOne]_vars

\* The shard tables a writer of m_shards can leave: the initial one, one with
\* the members of shard 0 rotated, one with the last member of shard 0
\* replaced.
ShardTables ==
  { InitShards,
    [InitShards EXCEPT ![1] = << @[2], @[3], @[4], @[1] >>],
    [InitShards EXCEPT ![1][4] = ShardNode("K9", "P9", 0)] }

\* Another thread of the node rewrites the shard table under m_mutexShards.
WriteShards(table) ==
  /\ m_mutexShards = None
  /\ table # m_shards
  /\ m_shards' = table
  /\ UNCHANGED << m_state, m_DSCommittee, m_blocklinkchain, blockStorage,
                  m_fallbackTimerPulse, detached, diskWrites, node, sent, config,
                  locks, pc, fallbackblock, inbound, latestInd, ret, trace,
                  sawWaiting >>

\* One receiver next to a writer of the shard table.
NextShards ==
  \/ ProcessFallbackBlock("t1", FewMessages)
  \/ \E s \in NodeStates : SetState(s)
  \/ \E table \in ShardTables : WriteShards(table)

SpecShards == Init /\ [][NextShards]_vars

\* ------------------------------------------------------------------ claims

\* The names of the steps thread t has run in its call.
Did(t, name) == \E i \in 1..Len(trace[t]) : trace[t][i].ev = name

Accepted(t) == pc[t] = "done" /\ ret[t]
Rejected(t) == pc[t] = "done" /\ ~ret[t]

\* The shard thread t's block refers to.
ShardOf(t) == At(m_shards, fallbackblock[t].header.shardId)

\* The number of bits set in a bitmap.
SetBits(B2) == Cardinality({ i \in 1..Len(B2) : B2[i] })

\* Every gate of the pipeline holds for the message and block of thread t.
AllGatesHold(t) ==
  /\ inbound[t].wellformed
  /\ fallbackblock[t].header.version = FALLBACKBLOCK_VERSION
  /\ fallbackblock[t].header.fallbackDSEpochNo = LatestDSBlockNum + 1
  /\ fallbackblock[t].header.fallbackEpochNo = CurrentEpochNum
  /\ fallbackblock[t].blockhash = GetMyHash(fallbackblock[t].header)
  /\ VerifyTimestamp(fallbackblock[t].timestamp)
  /\ fallbackblock[t].header.shardId < Len(m_shards)
  /\ fallbackblock[t].header.committeeHash = ShardHash(ShardOf(t))
  /\ fallbackblock[t].header.leaderConsensusId < Len(ShardOf(t))
  /\ \E i \in 1..Len(ShardOf(t)) :
       /\ ShardOf(t)[i].pubkey = fallbackblock[t].header.leaderPubKey
       /\ ShardOf(t)[i].peer = fallbackblock[t].header.leaderNetworkInfo
  /\ fallbackblock[t].header.stateRootHash = CurrentStateRootHash
  /\ VerifyFallbackBlockCoSignature(fallbackblock[t], m_shards).result

\* The chain, the storage and the committee are as they were at the start.
SharedStateUntouched ==
  /\ \E k \in 1..MaxInitLinks : m_blocklinkchain = InitChain(k)
  /\ blockStorage = << >>
  /\ m_DSCommittee = InitDSCommittee

\* C1: a BlockLink is appended, the committee replaced or true returned only
\* by a call whose block passed every gate; every fallback link of the chain
\* carries the hash of such a block, and the committee changes only then.
C1_CommitOnlyIfAllGatesHold ==
  /\ \A t \in Threads :
       (Did(t, "AddBlockLink") \/ Did(t, "UpdateDSCommitteeAfterFallback")
        \/ Did(t, "PutFallbackBlock") \/ Accepted(t))
       => AllGatesHold(t)
  /\ \A i \in 1..Len(m_blocklinkchain) :
       m_blocklinkchain[i].blocktype = "FB"
       => \E t \in Threads :
            /\ Did(t, "AddBlockLink")
            /\ fallbackblock[t].blockhash = m_blocklinkchain[i].blockhash
  /\ m_DSCommittee # InitDSCommittee
     => \E t \in Threads : Did(t, "UpdateDSCommitteeAfterFallback")

\* C1 witness: a call returned true and the committee was replaced.
C1_Witness ==
  /\ Accepted("t1")
  /\ m_DSCommittee # InitDSCommittee
  /\ m_blocklinkchain[Len(m_blocklinkchain)].blocktype = "FB"

\* C2: whenever a call has returned false, the BlockLink chain, the block
\* storage and the DS committee are what they were before the call.
C2_RejectionLeavesStateUntouched ==
  Rejected("t1") => SharedStateUntouched

\* C3: when B2 has the size of the shard and CS2 is the aggregate signature
\* of the members B2 marks, the co-signature check passes if and only if the
\* number of set bits is at least NumForConsensus(shard size).
C3_QuorumAtLeastThreshold ==
  \A t \in Threads :
    (/\ Did(t, "size")
     /\ Len(fallbackblock[t].b2) = Len(ShardOf(t))
     /\ fallbackblock[t].cs2.over = CoSigMessage(fallbackblock[t])
     /\ fallbackblock[t].cs2.signedBy # NullKey
     /\ fallbackblock[t].cs2.signedBy =
          { ShardOf(t)[i].pubkey : i \in { j \in 1..Len(ShardOf(t)) : fallbackblock[t].b2[j] } })
    => (Did(t, "GetLatestIndex") \/ pc[t] = "latest_index"
        <=> SetBits(fallbackblock[t].b2) >= NumForConsensus(Len(ShardOf(t))))

\* The members of a shard other than the leader, in shard order, as
\* (pubkey, peer) pairs.
OthersOf(shard, leaderPubKey, leaderNetworkInfo) ==
  LET rest == SelectSeq(shard, LAMBDA m : ~(m.pubkey = leaderPubKey
                                            /\ m.peer = leaderNetworkInfo))
  IN [i \in 1..Len(rest) |-> DSNode(rest[i].pubkey, rest[i].peer)]

\* C4: after the succession the DS committee is the leader's (pubkey, peer)
\* followed by the other members of the shard in shard order, as (pubkey,
\* peer) pairs; it has the length of the shard and holds nothing else.
C4_Succession ==
  \A t \in Threads :
    Did(t, "UpdateDSCommitteeAfterFallback")
    => /\ m_DSCommittee =
            << DSNode(fallbackblock[t].header.leaderPubKey,
                      fallbackblock[t].header.leaderNetworkInfo) >>
            \o OthersOf(ShardOf(t), fallbackblock[t].header.leaderPubKey,
                        fallbackblock[t].header.leaderNetworkInfo)
       /\ Len(m_DSCommittee) = Len(ShardOf(t))
       /\ \A i \in 1..Len(m_DSCommittee) :
            \E j \in 1..Len(ShardOf(t)) :
              m_DSCommittee[i] = DSNode(ShardOf(t)[j].pubkey, ShardOf(t)[j].peer)

\* C4 witness: the succession ran for a leader that is the third member of
\* its shard, and a member of the old committee that is not in the shard is
\* gone.
C4_Witness ==
  /\ Did("t1", "UpdateDSCommitteeAfterFallback")
  /\ fallbackblock["t1"].header.leaderPubKey = ShardOf("t1")[3].pubkey
  /\ m_DSCommittee[1] = DSNode("K3", "P3")
  /\ m_DSCommittee[2] = DSNode("K1", "P1")

\* The threads that have appended their BlockLink.
Appenders == { t \in Threads : Did(t, "AddBlockLink") }

\* C5: the indices of the chain are consecutive, none twice and none
\* skipped; the entries present at the start are unchanged; every entry
\* after them is the single FB link of one call, carrying that call's block
\* hash and DS epoch at the index latest + 1 it computed, and every call
\* that appended (every accepted one among them) has exactly one such entry.
C5_BlockLinkIndices ==
  /\ \A i \in 1..Len(m_blocklinkchain) :
       m_blocklinkchain[i].index = m_blocklinkchain[1].index + i - 1
  /\ \E k \in 1..MaxInitLinks :
       /\ k <= Len(m_blocklinkchain)
       /\ SubSeq(m_blocklinkchain, 1, k) = InitChain(k)
       /\ Len(m_blocklinkchain) = k + Cardinality(Appenders)
       /\ \A i \in (k + 1)..Len(m_blocklinkchain) :
            m_blocklinkchain[i].blocktype = "FB"
  /\ \A t \in Threads :
       Accepted(t) => t \in Appenders
  /\ \A t \in Appenders :
       /\ Cardinality({ i \in 1..Len(trace[t]) : trace[t][i].ev = "AddBlockLink" }) = 1
       /\ Cardinality({ i \in 1..Len(m_blocklinkchain) :
                          m_blocklinkchain[i].index = latestInd[t] }) = 1
       /\ \E i \in 1..Len(m_blocklinkchain) :
            m_blocklinkchain[i] =
              [index |-> latestInd[t],
               dsindex |-> fallbackblock[t].header.fallbackDSEpochNo,
               blocktype |-> "FB", blockhash |-> fallbackblock[t].blockhash]

\* C5 witness: both threads were accepted, each with its own BlockLink.
C5_Witness ==
  /\ Accepted("t1") /\ Accepted("t2")
  /\ latestInd["t1"] # latestInd["t2"]
  /\ Cardinality({ i \in 1..Len(m_blocklinkchain) :
                     m_blocklinkchain[i].blocktype = "FB" }) = 2

\* A thread has changed the chain or the storage for its block and has not
\* replaced the committee yet.
PartlyApplied(t) ==
  /\ Did(t, "AddBlockLink")
  /\ ~Did(t, "UpdateDSCommitteeAfterFallback")
  /\ pc[t] # "done"

\* C6: the BlockLink append, the storage put and the committee replacement
\* all run with m_mutexShards and m_mutexDSCommittee both held, so while a
\* fallback is partly applied nobody else can hold m_mutexDSCommittee.
C6_CommitUnderBothLocks ==
  /\ \A t \in Threads : \A i \in 1..Len(trace[t]) :
       trace[t][i].ev \in {"AddBlockLink", "PutFallbackBlock",
                           "UpdateDSCommitteeAfterFallback"}
       => trace[t][i].locks = {"m_mutexShards", "m_mutexDSCommittee"}
  /\ \A t \in Threads : PartlyApplied(t) => m_mutexDSCommittee = t

\* C7: a call whose CheckState failed and that never saw m_state equal to
\* WAITING_FALLBACKBLOCK while it waited does not decode, returns false when
\* it is done, and leaves chain, storage and committee as they were.
C7_AwaitReadyTimeout ==
  (Did("t1", "wait_for") /\ ~sawWaiting["t1"])
  => /\ pc["t1"] \in {"wait_for", "woken", "blocked", "done"}
     /\ ~Did("t1", "decode")
     /\ pc["t1"] = "done" => (~ret["t1"] /\ Did("t1", "timeout"))
     /\ SharedStateUntouched

\* C7 witness: a call timed out without ever seeing the state.
C7_Witness ==
  /\ Rejected("t1")
  /\ Did("t1", "wait_for") /\ Did("t1", "timeout")
  /\ ~sawWaiting["t1"]

\* C8: whenever a call has returned true, the storage holds, under the hash
\* of its block, that block with the shards as they were at the commit.
C8_AcceptedIsPersisted ==
  \A t \in Threads :
    Accepted(t)
    => /\ fallbackblock[t].blockhash \in DOMAIN blockStorage
       /\ blockStorage[fallbackblock[t].blockhash] =
            [block |-> fallbackblock[t], shards |-> m_shards]

\* C9: when the length of B2 differs from the size of the shard the
\* co-signature check fails at its first step: no key is selected or
\* aggregated, no signature verified, and the call returns false.
C9_BitmapLengthMismatch ==
  \A t \in Threads :
    (Did(t, "size") /\ Len(fallbackblock[t].b2) # Len(ShardOf(t)))
    => /\ Rejected(t)
       /\ trace[t][Len(trace[t])].ev = "size"
       /\ ~Did(t, "select") /\ ~Did(t, "quorum")
       /\ ~Did(t, "aggregate") /\ ~Did(t, "verify")
       /\ ~Did(t, "AddBlockLink")

\* C9 witness: an all-ones bitmap one longer than the shard was rejected by
\* the co-signature check.
C9_Witness ==
  /\ Did("t1", "size")
  /\ Len(fallbackblock["t1"].b2) = Len(ShardOf("t1")) + 1
  /\ \A i \in 1..Len(fallbackblock["t1"].b2) : fallbackblock["t1"].b2[i]
  /\ Rejected("t1")

\* The thread that holds the lock t is waiting for, if t is waiting.
WaitsFor(t) ==
  IF pc[t] = "lock_shards" /\ m_mutexShards # None THEN m_mutexShards
  ELSE IF pc[t] = "lock_ds" /\ m_mutexDSCommittee # None THEN m_mutexDSCommittee
  ELSE None

\* C10: m_mutexDSCommittee is held only by a thread that holds
\* m_mutexShards, a thread asking for m_mutexShards holds neither lock, and
\* no thread waits for a lock whose holder is itself waiting for a lock.
C10_LockOrder ==
  /\ \A t \in Threads : m_mutexDSCommittee = t => m_mutexShards = t
  /\ \A t \in Threads : pc[t] = "lock_shards" => Held(t) = {}
  /\ \A t \in Threads : pc[t] = "lock_ds" => Held(t) = {"m_mutexShards"}
  /\ \A t \in Threads :
       WaitsFor(t) # None => (WaitsFor(t) # t /\ WaitsFor(WaitsFor(t)) = None)
  /\ m_mutexDSCommittee # None => pc[m_mutexDSCommittee] = "update_ds"

\* C10 witness: one thread holds both locks while the other waits for
\* m_mutexShards.
C10_Witness ==
  /\ Held("t1") = {"m_mutexShards", "m_mutexDSCommittee"}
  /\ WaitsFor("t2") = "t1"

\* C11: key aggregation and signature verification run with no shared lock
\* held, and no thread holds m_mutexShards while it is about to verify or is
\* verifying a co-signature, so nobody waits for that lock meanwhile.
C11_CoSigWithoutLocks ==
  /\ \A t \in Threads : \A i \in 1..Len(trace[t]) :
       trace[t][i].ev \in {"aggregate", "verify"} => trace[t][i].locks = {}
  /\ \A t \in Threads : pc[t] = "cosig" => Held(t) = {}
  /\ \A t \in Threads :
       WaitsFor(t) # None => pc[WaitsFor(t)] # "cosig"

\* C12: a step of the background flush, whether MoveUpdatesToDisk succeeds
\* or fails, changes neither the return value nor the position of any call,
\* nor the chain, the storage or the committee; the call does not wait for
\* the flush (its last step is enabled whatever the flush has done) and the
\* flush is dispatched once per call and never again after it ran.
C12_FlushNeverInfluencesAcceptance ==
  /\ [][(diskWrites' # diskWrites \/ detached' < detached)
        => UNCHANGED << ret, pc, m_blocklinkchain, blockStorage, m_DSCommittee,
                        node, sent >>]_vars
  /\ [](pc["t1"] = "post" => ENABLED PostCommit("t1"))
  /\ [](detached + (IF diskWrites = "none ran" THEN 0 ELSE 1)
          = (IF Did("t1", "DetachedFunction") THEN 1 ELSE 0))

\* C12 witness: a call was accepted and its flush failed.
C12_Witness ==
  /\ Accepted("t1")
  /\ diskWrites = "failed"
  /\ detached = 0

\* The checks of a call in the order of the claim: decode, version,
\* freshness, header hash, timestamp, shard existence (and the shard hash
\* computation), committee hash, leader id and leader membership, state
\* root, then the steps of the co-signature check.
CheckOrder ==
  << "decode", "version", "latest", "hash", "timestamp", "shard", "shardhash",
     "committeehash", "leaderid", "leader", "stateroot", "size", "select",
     "quorum", "aggregate", "verify" >>

CheckNames == { CheckOrder[i] : i \in 1..Len(CheckOrder) }

\* The checks thread t has evaluated, in the order it evaluated them.
ChecksOf(t) ==
  LET evs == SelectSeq(trace[t], LAMBDA e : e.ev \in CheckNames)
  IN [i \in 1..Len(evs) |-> evs[i].ev]

\* The position in CheckOrder of the first check the message and block of
\* thread t fail; Len(CheckOrder) + 1 when they fail none.
FirstFailing(t) ==
  LET h == fallbackblock[t].header
      b == fallbackblock[t]
  IN
  IF ~inbound[t].wellformed THEN 1
  ELSE IF h.version # FALLBACKBLOCK_VERSION THEN 2
  ELSE IF ~(h.fallbackDSEpochNo = LatestDSBlockNum + 1
            /\ h.fallbackEpochNo = CurrentEpochNum) THEN 3
  ELSE IF b.blockhash # GetMyHash(h) THEN 4
  ELSE IF ~VerifyTimestamp(b.timestamp) THEN 5
  ELSE IF ~(h.shardId < Len(m_shards)) THEN 6
  ELSE IF h.committeeHash # ShardHash(ShardOf(t)) THEN 8
  ELSE IF ~(h.leaderConsensusId < Len(ShardOf(t))) THEN 9
  ELSE IF ~\E i \in 1..Len(ShardOf(t)) :
             /\ ShardOf(t)[i].pubkey = h.leaderPubKey
             /\ ShardOf(t)[i].peer = h.leaderNetworkInfo THEN 10
  ELSE IF h.stateRootHash # CurrentStateRootHash THEN 11
  ELSE IF Len(b.b2) # Len(ShardOf(t)) THEN 12
  ELSE IF SetBits(b.b2) # NumForConsensus(Len(b.b2)) THEN 14
  ELSE IF SetBits(b.b2) = 0 THEN 15
  ELSE IF ~(b.cs2.over = CoSigMessage(b)
            /\ b.cs2.signedBy =
                 { ShardOf(t)[i].pubkey : i \in { j \in 1..Len(b.b2) : b.b2[j] } })
       THEN 16
  ELSE Len(CheckOrder) + 1

\* C13: the checks a call has evaluated are an initial part of the order
\* version, freshness, header hash, timestamp, shard existence, committee
\* hash, leader identity, state root, co-signature; none after the first
\* check the block fails is evaluated, and the call that evaluated its first
\* failing check has returned false.
C13_CheckOrderFailFast ==
  \A t \in Threads :
    Did(t, "decode")
    => /\ ChecksOf(t) = SubSeq(CheckOrder, 1, Len(ChecksOf(t)))
       /\ Len(ChecksOf(t)) <= FirstFailing(t)
       /\ Len(ChecksOf(t)) = FirstFailing(t) => Rejected(t)
       /\ (Did(t, "aggregate") \/ Did(t, "verify")) => FirstFailing(t) >= 15

\* C13 witness: a block with a wrong committee hash and a wrong state root
\* was rejected at the committee hash; its state root was never compared.
C13_Witness ==
  /\ Rejected("t1")
  /\ Did("t1", "committeehash")
  /\ FirstFailing("t1") = 8
  /\ fallbackblock["t1"].header.stateRootHash # CurrentStateRootHash
  /\ ~Did("t1", "leaderid") /\ ~Did("t1", "stateroot") /\ ~Did("t1", "size")

\* The position in the trace of thread t of its first step of the given
\* name; 0 when it has none.
FirstAt(t, name) ==
  IF Did(t, name)
  THEN CHOOSE i \in 1..Len(trace[t]) :
         /\ trace[t][i].ev = name
         /\ \A j \in 1..(i - 1) : trace[t][j].ev # name
  ELSE 0

\* C14: the fallback timer pulse and the hand-over of the disk flush task
\* run with neither m_mutexShards nor m_mutexDSCommittee held, and after the
\* DS committee was replaced.
C14_PostCommitOutsideLock ==
  \A t \in Threads : \A i \in 1..Len(trace[t]) :
    trace[t][i].ev \in {"FallbackTimerPulse", "DetachedFunction"}
    => /\ trace[t][i].locks = {}
       /\ FirstAt(t, "UpdateDSCommitteeAfterFallback") \in 1..(i - 1)

\* The positions of a call inside cv_fallbackBlock.wait_for.
Waiting == {"wait_for", "woken", "blocked"}

\* C15: a call inside the wait goes on to decode only by a step that finds
\* m_state equal to WAITING_FALLBACKBLOCK; a step it takes while m_state is
\* anything else, a wake-up included, leaves it waiting or makes it return
\* false.
C15_WakeUpFiltering ==
  [][\A t \in Threads :
       (pc[t] \in Waiting /\ pc'[t] # pc[t])
       => /\ pc'[t] = "decode" => m_state = "WAITING_FALLBACKBLOCK"
          /\ m_state # "WAITING_FALLBACKBLOCK"
             => /\ pc'[t] \in Waiting \cup {"done"}
                /\ pc'[t] = "done" => ~ret'[t]
                /\ UNCHANGED << fallbackblock, inbound, shared >>]_vars

\* C15 witness: a waiting call was woken while m_state is not
\* WAITING_FALLBACKBLOCK and has never been during its wait.
C15_Witness ==
  /\ pc["t1"] = "woken"
  /\ m_state = "FALLBACK_CONSENSUS"
  /\ ~sawWaiting["t1"]

\* The node records before any fallback was accepted.
NodeUntouched ==
  node = [processedTransactions |-> TRUE, createdTransactions |-> TRUE,
          microblockConsensusBuffer |-> TRUE, tempState |-> TRUE,
          pow |-> 0, m_consensusID |-> 3, m_consensusLeaderID |-> 2]

\* C16: after an accepted call on a node that is not a lookup the
\* processed-transaction record, the created-transaction cache and the
\* micro-block buffer are cleared, the cleaning came before the one PoW
\* initiation, and the consensus counters are as before; on a lookup the two
\* counters are 0 and nothing was cleared, no PoW initiated and nothing
\* relayed. Until a call is accepted none of this has happened.
C16_RoleDependentReentry ==
  /\ Accepted("t1") /\ ~LOOKUP_NODE_MODE
     => /\ node = [processedTransactions |-> FALSE, createdTransactions |-> FALSE,
                   microblockConsensusBuffer |-> FALSE, tempState |-> FALSE,
                   pow |-> 1, m_consensusID |-> 3, m_consensusLeaderID |-> 2]
        /\ FirstAt("t1", "CleanCaches") > 0
        /\ FirstAt("t1", "CleanCaches") < FirstAt("t1", "InitiatePoW")
        /\ Cardinality({ i \in 1..Len(trace["t1"]) :
                           trace["t1"][i].ev = "InitiatePoW" }) = 1
        /\ ~Did("t1", "ResetConsensusID")
  /\ Accepted("t1") /\ LOOKUP_NODE_MODE
     => /\ node = [processedTransactions |-> TRUE, createdTransactions |-> TRUE,
                   microblockConsensusBuffer |-> TRUE, tempState |-> TRUE,
                   pow |-> 0, m_consensusID |-> 0, m_consensusLeaderID |-> 0]
        /\ sent = << >>
        /\ Did("t1", "ResetConsensusID")
        /\ ~Did("t1", "CleanCaches") /\ ~Did("t1", "InitiatePoW")
        /\ ~Did("t1", "SendFallbackBlockToOtherShardNodes")
  /\ ~Accepted("t1")
     => /\ NodeUntouched
        /\ sent = << >>
        /\ ~Did("t1", "CleanCaches") /\ ~Did("t1", "InitiatePoW")
        /\ ~Did("t1", "ResetConsensusID")

\* C16 witness: a node that is not a lookup accepted a block, cleaned up and
\* initiated PoW.
C16_Witness ==
  /\ Accepted("t1")
  /\ ~LOOKUP_NODE_MODE
  /\ node.pow = 1
  /\ ~node.processedTransactions

\* C17: at most one relay per processed message, made only by a call that
\* passed every gate, appended its BlockLink, replaced the committee and
\* returns true, on a node that is not a lookup with tree-based broadcast
\* on; the relayed message is the two type bytes and the re-encoding of the
\* decoded block, without the excess data of the inbound bytes; when the
\* re-encoding fails nothing is relayed, the cleaning and the PoW still run
\* and the call returns true.
C17_Relay ==
  /\ Len(sent) <= 1
  /\ Len(sent) = Cardinality({ i \in 1..Len(trace["t1"]) :
                                 trace["t1"][i].ev = "SendFallbackBlockToOtherShardNodes" })
  /\ sent # << >>
     => /\ Accepted("t1")
        /\ AllGatesHold("t1")
        /\ FirstAt("t1", "AddBlockLink") > 0
        /\ FirstAt("t1", "AddBlockLink") < FirstAt("t1", "UpdateDSCommitteeAfterFallback")
        /\ FirstAt("t1", "UpdateDSCommitteeAfterFallback")
             < FirstAt("t1", "SendFallbackBlockToOtherShardNodes")
        /\ ~Did("t1", "PutFallbackBlock failed")
        /\ ~LOOKUP_NODE_MODE /\ BROADCAST_TREEBASED_CLUSTER_MODE
        /\ sent[1].message.type = << "NODE", "FALLBACKBLOCK" >>
        /\ sent[1].message.payload.wellformed
        /\ sent[1].message.payload.body = fallbackblock["t1"]
        /\ ~sent[1].message.payload.excess
        /\ inbound["t1"].excess => sent[1].message.payload # inbound["t1"]
  /\ Did("t1", "SetNodeFallbackBlock failed")
     => /\ sent = << >>
        /\ Accepted("t1")
        /\ Did("t1", "CleanCaches") /\ Did("t1", "InitiatePoW")
        /\ node.pow = 1 /\ ~node.processedTransactions

\* C17 witness: a block that came with excess data was accepted and relayed.
C17_Witness ==
  /\ Accepted("t1")
  /\ inbound["t1"].excess
  /\ Len(sent) = 1

\* The positions of a call from the shard-existence check to the end of the
\* m_mutexShards scope.
InShardScope ==
  {"shard_checks", "cosig", "latest_index", "add_link", "persist", "pulse",
   "lock_ds", "update_ds", "detach"}

\* The shard the stored snapshot of thread t's block gives for its shard id.
StoredShard(t) ==
  At(blockStorage[fallbackblock[t].blockhash].shards, fallbackblock[t].header.shardId)

\* C18: a call holds m_mutexShards at every position from the
\* shard-existence check to the committee replacement, no step changes the
\* shard table while a call is there, and the shard whose hash matched the
\* committee hash is the one that holds the leader, whose members B2 selected
\* the keys from, that was stored as the snapshot and that the new committee
\* was made of.
C18_ShardTableConsistency ==
  /\ [](\A t \in Threads : pc[t] \in InShardScope => m_mutexShards = t)
  /\ [][(\E t \in Threads : pc[t] \in InShardScope) => m_shards' = m_shards]_vars
  /\ [](\A t \in Threads :
          (Did(t, "UpdateDSCommitteeAfterFallback") /\ Did(t, "PutFallbackBlock"))
          => /\ ShardHash(StoredShard(t)) = fallbackblock[t].header.committeeHash
             /\ \E i \in 1..Len(StoredShard(t)) :
                  /\ StoredShard(t)[i].pubkey = fallbackblock[t].header.leaderPubKey
                  /\ StoredShard(t)[i].peer = fallbackblock[t].header.leaderNetworkInfo
             /\ fallbackblock[t].cs2.signedBy =
                  { StoredShard(t)[i].pubkey :
                      i \in { j \in 1..Len(StoredShard(t)) : fallbackblock[t].b2[j] } }
             /\ m_DSCommittee =
                  << DSNode(fallbackblock[t].header.leaderPubKey,
                            fallbackblock[t].header.leaderNetworkInfo) >>
                  \o OthersOf(StoredShard(t), fallbackblock[t].header.leaderPubKey,
                              fallbackblock[t].header.leaderNetworkInfo))

\* C18 witness: a call committed against one shard table and the table was
\* rewritten afterwards.
C18_Witness ==
  /\ Accepted("t1")
  /\ Did("t1", "PutFallbackBlock")
  /\ blockStorage[fallbackblock["t1"].blockhash].shards # m_shards

\* The (leaderPubKey, leaderNetworkInfo) pair of the header of thread t's
\* block.
LeaderOf(t) ==
  DSNode(fallbackblock[t].header.leaderPubKey,
         fallbackblock[t].header.leaderNetworkInfo)

\* The member of the referred shard at position leaderConsensusId, as a
\* (pubkey, peer) pair.
MemberAtLeaderId(t) ==
  LET m == At(ShardOf(t), fallbackblock[t].header.leaderConsensusId)
  IN DSNode(m.pubkey, m.peer)

\* C19 as stated: for every accepted block the shard member at position
\* leaderConsensusId is the (leaderPubKey, leaderNetworkInfo) pair of the
\* header, and that pair is the front of the DS committee after the commit.
C19_LeaderAtConsensusId ==
  Accepted("t1")
  => /\ fallbackblock["t1"].header.leaderConsensusId < Len(ShardOf("t1"))
     /\ MemberAtLeaderId("t1") = LeaderOf("t1")
     /\ m_DSCommittee[1] = LeaderOf("t1")

\* C19 amended: for every accepted block leaderConsensusId is below the size
\* of the referred shard, the (leaderPubKey, leaderNetworkInfo) pair of the
\* header is a member of that shard at some position, and that pair is the
\* front of the DS committee after the commit.
C19_LeaderIsMember ==
  Accepted("t1")
  => /\ fallbackblock["t1"].header.leaderConsensusId < Len(ShardOf("t1"))
     /\ \E i \in 1..Len(ShardOf("t1")) :
          DSNode(ShardOf("t1")[i].pubkey, ShardOf("t1")[i].peer) = LeaderOf("t1")
     /\ m_DSCommittee[1] = LeaderOf("t1")

\* C19 witness: a block was accepted whose leader is a member of the shard,
\* not the one at position leaderConsensusId, and leads the new committee.
C19_Witness ==
  /\ Accepted("t1")
  /\ MemberAtLeaderId("t1") # LeaderOf("t1")
  /\ m_DSCommittee[1] = LeaderOf("t1")

====
